---- MODULE Spec2Model ----
(***************************************************************************)
(* MultiImageDragDropLoader.load (multi_image_loader.py): normalisation of *)
(* the widget value, per-file path resolution with the input-directory     *)
(* fallback, decoding, optional resize to the first image, and batch       *)
(* assembly.  Python values are tagged records, Python strings are         *)
(* sequences of one-character strings, image pixel data is symbolic.       *)
(***************************************************************************)
EXTENDS Integers, Sequences, FiniteSets, TLC

\* ---- bounds of the model -------------------------------------------------
MaxListLen == 2     \* longest list of filenames handed to load
MaxPad == 1         \* most whitespace characters on each side of a string

\* ---- Python values -------------------------------------------------------
None == [t |-> "NoneType", v |-> <<>>]
PyStr(s) == [t |-> "str", v |-> s]
PyInt(digits) == [t |-> "int", v |-> digits]
PyList(xs) == [t |-> "list", v |-> xs]

RECURSIVE Repeat(_, _)
Repeat(c, n) == IF n = 0 THEN <<>> ELSE <<c>> \o Repeat(c, n - 1)

Range(f) == {f[i] : i \in DOMAIN f}

\* ---- str.strip(), str.startswith(), str.endswith() -----------------------
IsSpace(c) == c \in {" ", "\t", "\n", "\r"}

RECURSIVE LStrip(_)
LStrip(s) == IF Len(s) > 0 /\ IsSpace(Head(s)) THEN LStrip(Tail(s)) ELSE s

RECURSIVE RStrip(_)
RStrip(s) ==
    IF Len(s) > 0 /\ IsSpace(s[Len(s)]) THEN RStrip(SubSeq(s, 1, Len(s) - 1)) ELSE s

\* str.strip() that forgets the right end
Strip_LeftOnly(s) == LStrip(s)

Strip(s) == RStrip(LStrip(s))

StartsWith(s, c) == Len(s) >= 1 /\ s[1] = c
EndsWith(s, c) == Len(s) >= 1 /\ s[Len(s)] = c

\* ---- json.loads ----------------------------------------------------------
Digits == {"0", "1", "2", "3", "4", "5", "6", "7", "8", "9"}
IsControl(c) == c \in {"\t", "\n", "\r"}
ParseFail == [ok |-> FALSE, val |-> None, pos |-> 0]

RECURSIVE SkipWs(_, _)
SkipWs(s, i) == IF i <= Len(s) /\ IsSpace(s[i]) THEN SkipWs(s, i + 1) ELSE i

\* i is the position after the opening quote; acc the characters decoded so far
RECURSIVE ParseString(_, _, _)
ParseString(s, i, acc) ==
    IF i > Len(s) THEN ParseFail
    ELSE IF s[i] = "\"" THEN [ok |-> TRUE, val |-> PyStr(acc), pos |-> i + 1]
    ELSE IF s[i] = "\\" THEN
        IF i + 1 > Len(s) THEN ParseFail
        ELSE IF s[i + 1] \in {"\"", "\\", "/"} THEN ParseString(s, i + 2, Append(acc, s[i + 1]))
        ELSE IF s[i + 1] = "t" THEN ParseString(s, i + 2, Append(acc, "\t"))
        ELSE IF s[i + 1] = "n" THEN ParseString(s, i + 2, Append(acc, "\n"))
        ELSE IF s[i + 1] = "r" THEN ParseString(s, i + 2, Append(acc, "\r"))
        ELSE ParseFail
    ELSE IF IsControl(s[i]) THEN ParseFail
    ELSE ParseString(s, i + 1, Append(acc, s[i]))

RECURSIVE ParseNumber(_, _, _)
ParseNumber(s, i, acc) ==
    IF i <= Len(s) /\ s[i] \in Digits THEN ParseNumber(s, i + 1, Append(acc, s[i]))
    ELSE IF acc = <<>> \/ (Len(acc) > 1 /\ acc[1] = "0") THEN ParseFail
    ELSE [ok |-> TRUE, val |-> PyInt(acc), pos |-> i]

RECURSIVE ParseValue(_, _)
RECURSIVE ParseArray(_, _, _)

\* i is the position of the value's first character
ParseValue(s, i) ==
    IF i > Len(s) THEN ParseFail
    ELSE IF s[i] = "[" THEN
        LET j == SkipWs(s, i + 1) IN
        IF j <= Len(s) /\ s[j] = "]" THEN [ok |-> TRUE, val |-> PyList(<<>>), pos |-> j + 1]
        ELSE ParseArray(s, j, <<>>)
    ELSE IF s[i] = "\"" THEN ParseString(s, i + 1, <<>>)
    ELSE IF s[i] \in Digits THEN ParseNumber(s, i, <<>>)
    ELSE ParseFail

\* i is the position of the next element; acc the elements parsed so far
ParseArray(s, i, acc) ==
    LET e == ParseValue(s, i) IN
    IF ~e.ok THEN ParseFail
    ELSE LET j == SkipWs(s, e.pos) IN
         IF j > Len(s) THEN ParseFail
         ELSE IF s[j] = "]" THEN [ok |-> TRUE, val |-> PyList(Append(acc, e.val)), pos |-> j + 1]
         ELSE IF s[j] = "," THEN ParseArray(s, SkipWs(s, j + 1), Append(acc, e.val))
         ELSE ParseFail

JsonLoads(s) ==
    LET r == ParseValue(s, SkipWs(s, 1)) IN
    IF ~r.ok THEN ParseFail
    ELSE IF SkipWs(s, r.pos) <= Len(s) THEN ParseFail
    ELSE r

\* ---- json.dumps of a list of str ----------------------------------------
EscapeChar(c) ==
    IF c = "\"" THEN <<"\\", "\"">>
    ELSE IF c = "\\" THEN <<"\\", "\\">>
    ELSE IF c = "\t" THEN <<"\\", "t">>
    ELSE IF c = "\n" THEN <<"\\", "n">>
    ELSE IF c = "\r" THEN <<"\\", "r">>
    ELSE <<c>>

RECURSIVE Escape(_)
Escape(s) == IF s = <<>> THEN <<>> ELSE EscapeChar(Head(s)) \o Escape(Tail(s))

Quote(s) == <<"\"">> \o Escape(s) \o <<"\"">>

RECURSIVE JoinQuoted(_, _)
JoinQuoted(names, sep) ==
    IF names = <<>> THEN <<>>
    ELSE IF Len(names) = 1 THEN Quote(names[1])
    ELSE Quote(names[1]) \o sep \o JoinQuoted(Tail(names), sep)

\* names is a sequence of character sequences; sep the item separator
JsonDumps(names, sep) == <<"[">> \o JoinQuoted(names, sep) \o <<"]">>

\* ---- the environment: host path helpers and the files on disk ------------
FileNames == {<<"a">>, <<" ", "b", "\"">>}
Dirs == {"input", "output"}
\* the output directory holds at most the file "a"
Paths == [dir : {"input"}, file : FileNames] \cup [dir : {"output"}, file : {<<"a">>}]
NoFile == [size |-> <<0, 0>>, mode |-> "absent"]
DiskFormats == {[size |-> <<2, 1>>, mode |-> "RGB"], [size |-> <<1, 2>>, mode |-> "RGBA"]}
ResizeModes == {"bilinear", "bogus"}

VARIABLES
    arg_images,       \* the value the host passed as `images`
    resize_to_first,
    resize_mode,
    tagged,           \* names the host's annotation resolves outside the input directory
    disk,             \* what each path holds
    pc,
    images,           \* the local `images`, rebound by the normaliser
    pil_images,
    lookups,          \* number of get_annotated_filepath calls made so far
    opened,           \* the paths handed to Image.open, in order
    result            \* the raised exception or the returned 3-tuple

vars == <<arg_images, resize_to_first, resize_mode, tagged, disk, pc, images,
          pil_images, lookups, opened, result>>

get_annotated_filepath(name) ==
    [dir |-> IF name \in tagged THEN "output" ELSE "input", file |-> name]

get_input_directory == "input"

PathJoin(dir, name) == [dir |-> dir, file |-> name]

PathExists(p) == p \in DOMAIN disk /\ disk[p] # NoFile

\* Image.open: the decoded image, with its own pixel data
ImageOpen(p) ==
    [size |-> disk[p].size, mode |-> disk[p].mode, px |-> [id |-> p, filter |-> "none"]]

\* ---- pil_to_comfy_tensor, resize_pil, torch.cat --------------------------
NoTensor == [shape |-> <<>>, planes |-> <<>>]

\* pil_to_comfy_tensor without unsqueeze(0): shape (H, W, 3)
pil_to_comfy_tensor_NoUnsqueeze(img) ==
    [shape |-> <<img.size[2], img.size[1], 3>>,
     planes |-> <<[px |-> img.px, converted |-> <<img.mode, "RGB">>]>>]

\* img.size is (width, height); the array of an image is (height, width, 3)
pil_to_comfy_tensor(img) ==
    [shape |-> <<1, img.size[2], img.size[1], 3>>,
     planes |-> <<[px |-> img.px, converted |-> <<img.mode, "RGB">>]>>]

Resample(mode) ==
    IF mode \in {"nearest", "bilinear", "bicubic", "lanczos"} THEN mode ELSE "lanczos"

\* resize_pil handing (height, width) to Image.resize
resize_pil_SwappedSize(img, size_wh, mode) ==
    IF img.size = <<size_wh[2], size_wh[1]>> THEN img
    ELSE [size |-> <<size_wh[2], size_wh[1]>>, mode |-> img.mode,
          px |-> [id |-> img.px.id, filter |-> Resample(mode)]]

\* Image.resize returns a copy when the size is unchanged, a resampled image otherwise
resize_pil(img, size_wh, mode) ==
    IF img.size = size_wh THEN img
    ELSE [size |-> size_wh, mode |-> img.mode,
          px |-> [id |-> img.px.id, filter |-> Resample(mode)]]

RECURSIVE Flatten(_)
Flatten(ts) == IF ts = <<>> THEN <<>> ELSE Head(ts).planes \o Flatten(Tail(ts))

RECURSIVE SumDim0(_)
SumDim0(ts) == IF ts = <<>> THEN 0 ELSE Head(ts).shape[1] + SumDim0(Tail(ts))

\* torch.cat(ts, dim=0): needs a non-empty list whose other dimensions agree
TorchCat(ts) ==
    IF ts = <<>> \/ \E i \in DOMAIN ts : Tail(ts[i].shape) # Tail(ts[1].shape)
    THEN [ok |-> FALSE, t |-> NoTensor]
    ELSE [ok |-> TRUE,
          t |-> [shape |-> <<SumDim0(ts)>> \o Tail(ts[1].shape), planes |-> Flatten(ts)]]

\* ---- outcomes of a call --------------------------------------------------
Msg(text) == [text |-> text, name |-> <<>>, paths |-> <<>>, type |-> "", value |-> None]

Raise(exc, msg) ==
    [exc |-> exc, msg |-> msg, image_batch |-> NoTensor, image_list |-> <<>>,
     image_names |-> None]

Return(image_batch, image_list, image_names) ==
    [exc |-> "none", msg |-> Msg(""), image_batch |-> image_batch,
     image_list |-> image_list, image_names |-> image_names]

Pending == Raise("pending", Msg(""))

\* ---- load: the input normaliser ------------------------------------------
IsBracketed(s) == StartsWith(s, "[") /\ EndsWith(s, "]")

\* the normaliser wrapping the trimmed string
Normalize_WrapsTrimmed(x) ==
    IF x.t # "str" THEN [exc |-> "none", val |-> x]
    ELSE LET s == Strip(x.v) IN
         IF IsBracketed(s)
         THEN LET r == JsonLoads(s) IN
              IF r.ok THEN [exc |-> "none", val |-> r.val]
              ELSE [exc |-> "JSONDecodeError", val |-> x]
         ELSE [exc |-> "none", val |-> PyList(<<PyStr(s)>>)]

Normalize(x) ==
    IF x.t # "str" THEN [exc |-> "none", val |-> x]
    ELSE LET s == Strip(x.v) IN
         IF IsBracketed(s)
         THEN LET r == JsonLoads(s) IN
              IF r.ok THEN [exc |-> "none", val |-> r.val]
              ELSE [exc |-> "JSONDecodeError", val |-> x]
         ELSE [exc |-> "none", val |-> PyList(<<x>>)]

\* the check without the test of the elements
IsListOfStr_ListOnly(x) == x.t = "list"

IsListOfStr(x) == x.t = "list" /\ \A i \in DOMAIN x.v : x.v[i].t = "str"

TypeErrorMsg(x) ==
    [Msg("images must be a list[str] or JSON string. Got: ")
        EXCEPT !.type = x.t, !.value = x]

\* ---- load: the path resolver ---------------------------------------------
\* the resolver without the input-directory fallback
Resolve_NoFallback(name) ==
    LET img_path == get_annotated_filepath(name)
    IN  IF PathExists(img_path) THEN [found |-> TRUE, path |-> img_path]
        ELSE [found |-> FALSE, path |-> img_path]

\* the resolver reporting the last path it tried
Resolve_ReportsFallback(name) ==
    LET img_path == get_annotated_filepath(name)
        img_path2 == PathJoin(get_input_directory, name)
    IN  IF PathExists(img_path) THEN [found |-> TRUE, path |-> img_path]
        ELSE IF PathExists(img_path2) THEN [found |-> TRUE, path |-> img_path2]
        ELSE [found |-> FALSE, path |-> img_path2]

Resolve(name) ==
    LET img_path == get_annotated_filepath(name)
        img_path2 == PathJoin(get_input_directory, name)
    IN  IF PathExists(img_path) THEN [found |-> TRUE, path |-> img_path]
        ELSE IF PathExists(img_path2) THEN [found |-> TRUE, path |-> img_path2]
        ELSE [found |-> FALSE, path |-> img_path]

NotFoundMsg(name, img_path) ==
    [Msg("Image not found: (looked for )") EXCEPT !.name = name, !.paths = <<img_path>>]

\* ---- load: the batch assembler -------------------------------------------
\* the list built from the images resized to the first
ImageList_Resized(pils) ==
    [i \in DOMAIN pils |-> pil_to_comfy_tensor(resize_pil(pils[i], pils[1].size, "lanczos"))]

ImageList(pils) == [i \in DOMAIN pils |-> pil_to_comfy_tensor(pils[i])]

\* the assembler without the check of the sizes: torch.cat raises on a mismatch
BuildBatch_NoSizeCheck(pils, image_list, rtf, mode) ==
    IF Len(pils) = 1 THEN [exc |-> "none", msg |-> Msg(""), batch |-> image_list[1]]
    ELSE IF rtf THEN
        IF pils = <<>>
        THEN [exc |-> "IndexError", msg |-> Msg("list index out of range"), batch |-> NoTensor]
        ELSE LET w0 == pils[1].size[1]
                 h0 == pils[1].size[2]
                 resized == [i \in DOMAIN pils |-> resize_pil(pils[i], <<w0, h0>>, mode)]
                 batch_tensors == [i \in DOMAIN pils |-> pil_to_comfy_tensor(resized[i])]
                 c == TorchCat(batch_tensors)
             IN  IF c.ok THEN [exc |-> "none", msg |-> Msg(""), batch |-> c.t]
                 ELSE [exc |-> "RuntimeError", msg |-> Msg("torch.cat"), batch |-> NoTensor]
    ELSE LET c == TorchCat(image_list)
         IN  IF c.ok THEN [exc |-> "none", msg |-> Msg(""), batch |-> c.t]
             ELSE [exc |-> "RuntimeError", msg |-> Msg("torch.cat"), batch |-> NoTensor]

BuildBatch(pils, image_list, rtf, mode) ==
    IF Len(pils) = 1 THEN [exc |-> "none", msg |-> Msg(""), batch |-> image_list[1]]
    ELSE IF rtf THEN
        IF pils = <<>>
        THEN [exc |-> "IndexError", msg |-> Msg("list index out of range"), batch |-> NoTensor]
        ELSE LET w0 == pils[1].size[1]
                 h0 == pils[1].size[2]
                 resized == [i \in DOMAIN pils |-> resize_pil(pils[i], <<w0, h0>>, mode)]
                 batch_tensors == [i \in DOMAIN pils |-> pil_to_comfy_tensor(resized[i])]
                 c == TorchCat(batch_tensors)
             IN  IF c.ok THEN [exc |-> "none", msg |-> Msg(""), batch |-> c.t]
                 ELSE [exc |-> "RuntimeError", msg |-> Msg("torch.cat"), batch |-> NoTensor]
    ELSE LET shapes == [i \in DOMAIN image_list |->
                            <<image_list[i].shape[2], image_list[i].shape[3]>>]
             c == TorchCat(image_list)
         IN  IF Cardinality(Range(shapes)) # 1
             THEN [exc |-> "ValueError",
                   msg |-> Msg("Images have different sizes; enable resize_to_first=True or use the image_list output."),
                   batch |-> NoTensor]
             ELSE IF c.ok THEN [exc |-> "none", msg |-> Msg(""), batch |-> c.t]
             ELSE [exc |-> "RuntimeError", msg |-> Msg("torch.cat"), batch |-> NoTensor]

Finish(b, image_list, names) ==
    IF b.exc = "none" THEN Return(b.batch, image_list, names) ELSE Raise(b.exc, b.msg)

\* ---- load as a function of its arguments and the environment -------------
RECURSIVE ResolveAll(_, _)
ResolveAll(names, acc) ==
    IF names = <<>> THEN [found |-> TRUE, paths |-> acc, name |-> <<>>, path |-> <<>>]
    ELSE LET r == Resolve(Head(names).v) IN
         IF r.found THEN ResolveAll(Tail(names), Append(acc, r.path))
         ELSE [found |-> FALSE, paths |-> acc, name |-> Head(names).v, path |-> r.path]

load(x, rtf, mode) ==
    IF x = None THEN Raise("ValueError", Msg("No images provided."))
    ELSE LET n == Normalize(x) IN
         IF n.exc # "none" THEN Raise(n.exc, Msg("json.loads"))
         ELSE IF ~IsListOfStr(n.val) THEN Raise("TypeError", TypeErrorMsg(n.val))
         ELSE LET r == ResolveAll(n.val.v, <<>>) IN
              IF ~r.found THEN Raise("FileNotFoundError", NotFoundMsg(r.name, r.path))
              ELSE LET pils == [i \in DOMAIN r.paths |-> ImageOpen(r.paths[i])]
                       image_list == ImageList(pils)
                   IN  Finish(BuildBatch(pils, image_list, rtf, mode), image_list, n.val)

\* ---- the values the host may pass ----------------------------------------
NameLists == UNION {[1..n -> FileNames] : n \in 0..MaxListLen}
AsPyList(names) == PyList([i \in DOMAIN names |-> PyStr(names[i])])
Separators == {<<",">>, <<",", " ">>}
Padded(body) == {Repeat(" ", l) \o body \o Repeat(" ", r) : l \in 0..MaxPad, r \in 0..MaxPad}
JsonStrings == UNION {Padded(JsonDumps(names, sep)) : names \in NameLists, sep \in Separators}
BareStrings == UNION {Padded(name) : name \in FileNames \cup {<<"[", "a">>}}
BadStrings ==
    { <<"[", "1", "]">>,                        \* a list of int
      <<"[", "\"", "a", "\"", ",", "1", "]">>,  \* a list with one non-string
      <<"[", "[", "]", "]">>,                   \* a nested list
      <<"[", "a", "]">>,                        \* not JSON
      <<"[">>,                                  \* not JSON
      <<"[", "\"", "a", "\"", ",", "]">>,       \* not JSON: trailing comma
      <<"[", "]", "]">> }                       \* not JSON: extra data
OtherValues ==
    { None, PyInt(<<"1">>), PyList(<<PyInt(<<"1">>)>>),
      PyList(<<PyStr(<<"a">>), PyInt(<<"1">>)>>) }
Inputs ==
    {AsPyList(names) : names \in NameLists}
        \cup {PyStr(s) : s \in JsonStrings \cup BareStrings \cup BadStrings}
        \cup OtherValues

Init ==
    /\ arg_images \in Inputs
    /\ resize_to_first \in BOOLEAN
    /\ resize_mode \in ResizeModes
    /\ tagged \in SUBSET FileNames
    /\ disk \in [Paths -> DiskFormats \cup {NoFile}]
    /\ pc = "start"
    /\ images = arg_images
    /\ pil_images = <<>>
    /\ lookups = 0
    /\ opened = <<>>
    /\ result = Pending

env == <<arg_images, resize_to_first, resize_mode, tagged, disk>>
loop == <<pil_images, lookups, opened>>

\* lines 85-86
RaiseNoImages ==
    /\ pc = "start" /\ images = None
    /\ result' = Raise("ValueError", Msg("No images provided."))
    /\ pc' = "done"
    /\ UNCHANGED <<env, images, loop>>

\* lines 88, 99: a value that is not a str goes to the check unchanged
KeepValue ==
    /\ pc = "start" /\ images # None /\ images.t # "str"
    /\ pc' = "validate"
    /\ UNCHANGED <<env, images, loop, result>>

\* lines 91-94, json.loads returns
ParseJsonArray ==
    /\ pc = "start" /\ images.t = "str" /\ IsBracketed(Strip(images.v))
    /\ Normalize(images).exc = "none"
    /\ images' = Normalize(images).val
    /\ pc' = "validate"
    /\ UNCHANGED <<env, loop, result>>

\* lines 91-94, json.loads raises
RaiseJsonDecodeError ==
    /\ pc = "start" /\ images.t = "str" /\ IsBracketed(Strip(images.v))
    /\ Normalize(images).exc # "none"
    /\ result' = Raise(Normalize(images).exc, Msg("json.loads"))
    /\ pc' = "done"
    /\ UNCHANGED <<env, images, loop>>

\* lines 95-97
WrapSingleFilename ==
    /\ pc = "start" /\ images.t = "str" /\ ~IsBracketed(Strip(images.v))
    /\ images' = Normalize(images).val
    /\ pc' = "validate"
    /\ UNCHANGED <<env, loop, result>>

\* lines 99-100
RaiseTypeError ==
    /\ pc = "validate" /\ ~IsListOfStr(images)
    /\ result' = Raise("TypeError", TypeErrorMsg(images))
    /\ pc' = "done"
    /\ UNCHANGED <<env, images, loop>>

Validated ==
    /\ pc = "validate" /\ IsListOfStr(images)
    /\ pc' = "resolve"
    /\ UNCHANGED <<env, images, loop, result>>

\* lines 104-114: one iteration of the loop over the names
NextName == images.v[Len(pil_images) + 1].v

OpenAnnotated ==
    /\ pc = "resolve" /\ Len(pil_images) < Len(images.v)
    /\ PathExists(get_annotated_filepath(NextName))
    /\ lookups' = lookups + 1
    /\ opened' = Append(opened, Resolve(NextName).path)
    /\ pil_images' = Append(pil_images, ImageOpen(Resolve(NextName).path))
    /\ UNCHANGED <<env, pc, images, result>>

OpenFallback ==
    /\ pc = "resolve" /\ Len(pil_images) < Len(images.v)
    /\ ~PathExists(get_annotated_filepath(NextName))
    /\ Resolve(NextName).found
    /\ lookups' = lookups + 1
    /\ opened' = Append(opened, Resolve(NextName).path)
    /\ pil_images' = Append(pil_images, ImageOpen(Resolve(NextName).path))
    /\ UNCHANGED <<env, pc, images, result>>

RaiseFileNotFound ==
    /\ pc = "resolve" /\ Len(pil_images) < Len(images.v)
    /\ ~Resolve(NextName).found
    /\ lookups' = lookups + 1
    /\ result' = Raise("FileNotFoundError", NotFoundMsg(NextName, Resolve(NextName).path))
    /\ pc' = "done"
    /\ UNCHANGED <<env, images, pil_images, opened>>

\* lines 116-138: the list, the batch and the return
Assembled == BuildBatch(pil_images, ImageList(pil_images), resize_to_first, resize_mode)

AtLoopEnd == pc = "resolve" /\ Len(pil_images) = Len(images.v)

\* lines 120-121
AssembleSingle ==
    /\ AtLoopEnd /\ Len(pil_images) = 1
    /\ result' = Finish(Assembled, ImageList(pil_images), images)
    /\ pc' = "done"
    /\ UNCHANGED <<env, images, loop>>

\* lines 123-127
AssembleResized ==
    /\ AtLoopEnd /\ Len(pil_images) # 1 /\ resize_to_first /\ pil_images # <<>>
    /\ result' = Finish(Assembled, ImageList(pil_images), images)
    /\ pc' = "done"
    /\ UNCHANGED <<env, images, loop>>

\* line 124 on an empty list
RaiseIndexError ==
    /\ AtLoopEnd /\ Len(pil_images) # 1 /\ resize_to_first /\ pil_images = <<>>
    /\ result' = Finish(Assembled, ImageList(pil_images), images)
    /\ pc' = "done"
    /\ UNCHANGED <<env, images, loop>>

\* lines 130-135
RaiseSizeMismatch ==
    /\ AtLoopEnd /\ Len(pil_images) # 1 /\ ~resize_to_first /\ Assembled.exc # "none"
    /\ result' = Finish(Assembled, ImageList(pil_images), images)
    /\ pc' = "done"
    /\ UNCHANGED <<env, images, loop>>

\* lines 130-131, 136
AssembleConcat ==
    /\ AtLoopEnd /\ Len(pil_images) # 1 /\ ~resize_to_first /\ Assembled.exc = "none"
    /\ result' = Finish(Assembled, ImageList(pil_images), images)
    /\ pc' = "done"
    /\ UNCHANGED <<env, images, loop>>

Next ==
    \/ RaiseNoImages
    \/ KeepValue
    \/ ParseJsonArray
    \/ RaiseJsonDecodeError
    \/ WrapSingleFilename
    \/ RaiseTypeError
    \/ Validated
    \/ OpenAnnotated
    \/ OpenFallback
    \/ RaiseFileNotFound
    \/ AssembleSingle
    \/ AssembleResized
    \/ RaiseIndexError
    \/ RaiseSizeMismatch
    \/ AssembleConcat

Spec == Init /\ [][Next]_vars

\* the stepwise run ends with the value of load on its arguments
StepsAgreeWithLoad ==
    pc = "done" => result = load(arg_images, resize_to_first, resize_mode)

\* ---- properties ----------------------------------------------------------
Done == pc = "done"
Succeeded == Done /\ result.exc = "none"
NoLookupYet == lookups = 0 /\ opened = <<>>

\* the loop over the names ran to its end: every file was found and opened
AllOpened ==
    /\ Done /\ images.t = "list" /\ \A i \in DOMAIN images.v : images.v[i].t = "str"
    /\ Len(opened) = Len(images.v)

\* (height, width) of the file at a path
SizeHW(p) == <<disk[p].size[2], disk[p].size[1]>>

ResolvableAt(name) ==
    PathExists(get_annotated_filepath(name)) \/ PathExists(PathJoin("input", name))

\* C1: when no images are supplied (None, the empty list, or the string "[]"),
\* the call fails with a value error, whatever resize_to_first and resize_mode are.
C1_NoImagesIsValueError ==
    (Done /\ (\/ arg_images = None
              \/ arg_images = PyList(<<>>)
              \/ (arg_images.t = "str" /\ arg_images.v = <<"[", "]">>)))
        => result.exc = "ValueError"

\* the first name, in list order, that exists at neither candidate path
FirstMissing ==
    LET missing == {i \in DOMAIN images.v : ~ResolvableAt(images.v[i].v)}
    IN  images.v[CHOOSE i \in missing : \A j \in missing : i <= j].v

SomeMissing == \E i \in DOMAIN images.v : ~ResolvableAt(images.v[i].v)

\* C2 as stated: when a filename exists neither at its annotated path nor under
\* the input directory, load fails with a file-not-found error whose message
\* contains the filename and both attempted paths.
C2_MessageNamesBothPaths ==
    (Done /\ IsListOfStr(images) /\ SomeMissing) =>
        /\ result.exc = "FileNotFoundError"
        /\ result.msg.name = FirstMissing
        /\ get_annotated_filepath(FirstMissing) \in Range(result.msg.paths)
        /\ PathJoin("input", FirstMissing) \in Range(result.msg.paths)

\* C2 amended: when a filename exists neither at its annotated path nor under
\* the input directory, load fails with a file-not-found error whose message
\* contains the filename and the annotated path, and no other path; without such
\* a filename it raises no file-not-found error.
C2_MessageNamesAnnotatedPath ==
    (Done /\ IsListOfStr(images)) =>
        IF SomeMissing
        THEN /\ result.exc = "FileNotFoundError"
             /\ result.msg.name = FirstMissing
             /\ result.msg.paths = <<get_annotated_filepath(FirstMissing)>>
        ELSE result.exc # "FileNotFoundError"

C2_Witness ==
    /\ Done /\ result.exc = "FileNotFoundError"
    /\ get_annotated_filepath(result.msg.name) # PathJoin("input", result.msg.name)

\* C3: for N >= 2 images with resize_to_first=false, load succeeds exactly when
\* all images share the same (height, width): on a mismatch it raises a value
\* error and returns nothing, on a match the batch has batch dimension N and
\* slice i is list element i.
C3_NoResizeNeedsEqualSizes ==
    (AllOpened /\ Len(opened) >= 2 /\ ~resize_to_first) =>
        IF \A i \in DOMAIN opened : SizeHW(opened[i]) = SizeHW(opened[1])
        THEN /\ result.exc = "none"
             /\ result.image_batch.shape = <<Len(opened)>> \o SizeHW(opened[1]) \o <<3>>
             /\ Len(result.image_batch.planes) = Len(opened)
             /\ \A i \in DOMAIN opened :
                    /\ result.image_list[i].shape = <<1>> \o SizeHW(opened[1]) \o <<3>>
                    /\ result.image_batch.planes[i] = result.image_list[i].planes[1]
                    /\ result.image_batch.planes[i].px.id = opened[i]
        ELSE /\ result.exc = "ValueError"
             /\ result.image_batch = NoTensor
             /\ result.image_list = <<>>

C3_Witness ==
    /\ Succeeded /\ ~resize_to_first /\ Len(opened) >= 2
    /\ opened[1] # opened[2]

\* C4: for N >= 2 images with resize_to_first=true, load succeeds once every file
\* is found, and the batch has batch dimension N and the first image's original
\* (height, width), whatever the other sizes and the resize mode.
C4_ResizeToFirstShape ==
    (AllOpened /\ Len(opened) >= 2 /\ resize_to_first) =>
        /\ result.exc = "none"
        /\ result.image_batch.shape = <<Len(opened)>> \o SizeHW(opened[1]) \o <<3>>
        /\ Len(result.image_batch.planes) = Len(opened)
        /\ \A i \in DOMAIN opened : result.image_batch.planes[i].px.id = opened[i]

C4_Witness ==
    /\ Succeeded /\ resize_to_first /\ Len(opened) >= 2
    /\ SizeHW(opened[2]) # SizeHW(opened[1])
    /\ resize_mode \notin {"nearest", "bilinear", "bicubic", "lanczos"}

\* the value is a bracketed string that json.loads rejects
InvalidJson ==
    /\ arg_images.t = "str" /\ IsBracketed(Strip(arg_images.v))
    /\ ~JsonLoads(Strip(arg_images.v)).ok

\* the value is neither None nor, once normalised, a list of str
NotAListOfStr ==
    \/ arg_images.t \notin {"NoneType", "str", "list"}
    \/ arg_images.t = "list" /\ \E i \in DOMAIN arg_images.v : arg_images.v[i].t # "str"
    \/ /\ arg_images.t = "str" /\ IsBracketed(Strip(arg_images.v))
       /\ JsonLoads(Strip(arg_images.v)).ok
       /\ LET parsed == JsonLoads(Strip(arg_images.v)).val
          IN  parsed.t # "list" \/ \E i \in DOMAIN parsed.v : parsed.v[i].t # "str"

\* C5 as stated: if the normalised value is not a list of strings (a non-string
\* non-list value, a list with a non-string element, a bracketed string that
\* does not parse to a list of strings, invalid JSON included), load raises a
\* type error before any path is resolved or any file is opened.
C5_TypeErrorAlsoForInvalidJson ==
    (Done /\ (NotAListOfStr \/ InvalidJson)) => (result.exc = "TypeError" /\ NoLookupYet)

\* C5 amended: a non-string non-list value other than None, a list with a
\* non-string element, and a bracketed string that parses as JSON to something
\* other than a list of strings raise a type error; a bracketed string that is
\* not valid JSON raises json.JSONDecodeError (a value error) instead; both
\* before any path is resolved or any file is opened.
C5_TypeErrorOrJsonDecodeError ==
    /\ (Done /\ NotAListOfStr) => (result.exc = "TypeError" /\ NoLookupYet)
    /\ (Done /\ InvalidJson) => (result.exc = "JSONDecodeError" /\ NoLookupYet)

C5_Witness == Done /\ InvalidJson /\ result.exc = "JSONDecodeError"

\* every encoding of a list of filenames, paired with the list
JsonEncodings ==
    {<<PyStr(Repeat(" ", l) \o JsonDumps(names, sep) \o Repeat(" ", r)), AsPyList(names)>> :
        names \in NameLists, sep \in Separators, l \in 0..MaxPad, r \in 0..MaxPad}

\* C6: calling load with the JSON-array string encoding of a list of filenames,
\* also with surrounding whitespace, gives the outcome of calling load with the
\* list itself: the same three outputs or the same error.
C6_JsonStringSameAsList ==
    Done => \A e \in JsonEncodings :
                arg_images = e[1] => result = load(e[2], resize_to_first, resize_mode)

C6_Witness ==
    /\ Succeeded /\ arg_images.t = "str" /\ Len(opened) = 2
    /\ Head(arg_images.v) = " " /\ arg_images.v[Len(arg_images.v)] = " "
    /\ \E i \in DOMAIN result.image_names.v : "\"" \in Range(result.image_names.v[i].v)

\* C7: for a valid input that normalises to exactly one filename, the batch is
\* the sole element of the list output, with batch dimension 1 and the image's
\* original size, for both values of resize_to_first and any resize mode.
C7_SingleImageBatchIsListElement ==
    (AllOpened /\ Len(opened) = 1) =>
        /\ result.exc = "none"
        /\ Len(result.image_list) = 1
        /\ result.image_batch = result.image_list[1]
        /\ result.image_batch.shape = <<1>> \o SizeHW(opened[1]) \o <<3>>
        /\ Len(result.image_batch.planes) = 1

C7_Witness == Succeeded /\ Len(opened) = 1 /\ resize_to_first /\ arg_images.t = "str"

\* C8: per filename, the annotated path is opened when it exists; the
\* input-directory path is opened only when the annotated path does not exist and
\* the input-directory path does; a filename that exists only under the input
\* directory loads.
C8_PathResolution ==
    /\ \A i \in DOMAIN opened :
          LET name == images.v[i].v
              img_path == get_annotated_filepath(name)
          IN  /\ pil_images[i].px.id = opened[i]
              /\ IF PathExists(img_path) THEN opened[i] = img_path
                 ELSE opened[i] = PathJoin("input", name) /\ PathExists(opened[i])
    /\ (Done /\ IsListOfStr(images) /\ ~SomeMissing) =>
          (Len(opened) = Len(images.v) /\ result.exc # "FileNotFoundError")

C8_Witness ==
    /\ Succeeded
    /\ \E i \in DOMAIN opened : opened[i] # get_annotated_filepath(images.v[i].v)

\* the normalised filename list, read off the argument
ExpectedNames ==
    IF arg_images.t = "list" THEN arg_images
    ELSE IF IsBracketed(Strip(arg_images.v)) THEN JsonLoads(Strip(arg_images.v)).val
    ELSE PyList(<<arg_images>>)

\* C9: on success the second output holds one tensor per filename, in input
\* order, each at its image's original size, and the third output is the
\* normalised filename list; both are the same for either value of
\* resize_to_first and every resize mode.
C9_ListAndNamesUnresized ==
    Succeeded =>
        /\ result.image_names = ExpectedNames
        /\ Len(result.image_list) = Len(ExpectedNames.v)
        /\ \A i \in DOMAIN result.image_list :
              /\ opened[i].file = ExpectedNames.v[i].v
              /\ result.image_list[i].shape = <<1>> \o SizeHW(opened[i]) \o <<3>>
              /\ result.image_list[i].planes = <<[px |-> [id |-> opened[i], filter |-> "none"],
                                                  converted |-> <<disk[opened[i]].mode, "RGB">>]>>
        /\ \A rtf \in BOOLEAN, mode \in ResizeModes :
              LET other == load(arg_images, rtf, mode)
              IN  other.exc = "none" =>
                      /\ other.image_list = result.image_list
                      /\ other.image_names = result.image_names

C9_Witness ==
    /\ Succeeded /\ resize_to_first /\ Len(opened) = 2
    /\ SizeHW(opened[1]) # SizeHW(opened[2])

\* C10 as stated: a single string that is not a bracketed array is trimmed and
\* wrapped in a one-element list: the filename resolved on disk and returned in
\* the third output is the trimmed string.
C10_SingleStringIsTrimmed ==
    (Done /\ arg_images.t = "str" /\ ~IsBracketed(Strip(arg_images.v))) =>
        /\ images = PyList(<<PyStr(Strip(arg_images.v))>>)
        /\ \A i \in DOMAIN opened : opened[i].file = Strip(arg_images.v)
        /\ result.exc = "none" => result.image_names = PyList(<<PyStr(Strip(arg_images.v))>>)

\* C10 amended: a single string that is not a bracketed array is wrapped in a
\* one-element list as given, untrimmed (trimming only decides whether it is a
\* bracketed array): the filename resolved on disk and returned in the third
\* output is the original string.
C10_SingleStringIsWrappedAsGiven ==
    (Done /\ arg_images.t = "str" /\ ~IsBracketed(Strip(arg_images.v))) =>
        /\ images = PyList(<<arg_images>>)
        /\ lookups = 1
        /\ \A i \in DOMAIN opened : opened[i].file = arg_images.v
        /\ result.exc = "none" => result.image_names = PyList(<<arg_images>>)
        /\ result.exc # "none" =>
              (result.exc = "FileNotFoundError" /\ result.msg.name = arg_images.v)

C10_Witness ==
    /\ Succeeded /\ arg_images.t = "str" /\ ~IsBracketed(Strip(arg_images.v))
    /\ Strip(arg_images.v) # arg_images.v

====
